---- MODULE Spec2Model ----
(***************************************************************************)
(* A model of the hash-join helpers of                                     *)
(*   src/query/service/src/pipelines/processors/transforms/hash_join/      *)
(*   common.rs (JoinHashTable) and of transform_right_join.rs              *)
(*   (RightJoinCompactor).                                                 *)
(*                                                                         *)
(* Data: a Column is Column::Null {len}, Column::Nullable(NullableColumn   *)
(* {column, validity}) or any other (non-nullable) column; a Bitmap is a   *)
(* sequence of BOOLEAN; a ChunkEntry is {id, value, data_type}; a Value is *)
(* Value::Scalar or Value::Column.                                         *)
(***************************************************************************)
EXTENDS Integers, Sequences, FiniteSets, TLC

VARIABLES
    overflow_checks,  \* build profile: TRUE = integer overflow panics (debug),
                      \* FALSE = integer overflow wraps (release)
    sv_pc, sv_column, sv_validity, sv_out, sv_out2,  \* one run of set_validity
    mk_pc, mk_cols, mk_num_rows, mk_markers,         \* one run of init_markers
    pk_pc, pk_table, pk_key, pk_valids, pk_i, pk_out, \* one run of probe_key
    cm_pc, cm_has_null, cm_markers, cm_out,  \* one run of create_marker_chunk
    of_pc, of_filter_vector, of_out,         \* one run of get_other_filters
    rest_probe_chunks,   \* hash_join_desc.join_state.rest_probe_chunks
    rest_build_indexes,  \* hash_join_desc.join_state.rest_build_indexes
    js_validity,         \* hash_join_desc.join_state.validity
    rc_pc, rc_out, rc_calls,   \* one run of rest_chunk: its result and the
                               \* set_validity calls it made
    join_type,        \* hash_join_desc.join_type
    phase,            \* Building, Probing, Finalizing or Done ("off": no join)
    chunks,           \* row_space.chunks, in arrival order
    build_indexes,    \* hash_join_desc.join_state.build_indexes
    interrupted,      \* the join state's interrupt flag
    probers,          \* probe contributors that have not finished yet
    output,           \* the batches probing has produced (compact_final's input)
    fin_row_state, fin_unmatched, fin_tail,   \* what finalization computed
    engine_calls,     \* the arguments of each right_join_chunks call
    engine_failed,    \* whether the engine's finalization returned an error
    returned          \* what compact_final returned

sv_vars == <<sv_pc, sv_column, sv_validity, sv_out, sv_out2>>
mk_vars == <<mk_pc, mk_cols, mk_num_rows, mk_markers>>
pk_vars == <<pk_pc, pk_table, pk_key, pk_valids, pk_i, pk_out>>
cm_vars == <<cm_pc, cm_has_null, cm_markers, cm_out>>
of_vars == <<of_pc, of_filter_vector, of_out>>
rc_vars == <<rest_probe_chunks, rest_build_indexes, js_validity, rc_pc, rc_out, rc_calls>>
helper_vars == <<cm_vars, of_vars, rc_vars>>

fin_vars == <<fin_row_state, fin_unmatched, fin_tail, engine_calls, engine_failed, returned>>
join_vars == <<join_type, phase, chunks, build_indexes, interrupted, probers,
               output, fin_vars>>

vars == <<overflow_checks, sv_vars, mk_vars, pk_vars, join_vars, helper_vars>>

\* what the steps of one function leave alone: the runs of the others
other_than_sv == <<overflow_checks, mk_vars, pk_vars, join_vars, helper_vars>>
other_than_mk == <<overflow_checks, sv_vars, pk_vars, join_vars, helper_vars>>
other_than_pk == <<overflow_checks, sv_vars, mk_vars, join_vars, helper_vars>>
other_than_join == <<overflow_checks, sv_vars, mk_vars, pk_vars, helper_vars>>
other_than_cm == <<overflow_checks, sv_vars, mk_vars, pk_vars, join_vars, of_vars, rc_vars>>
other_than_of == <<overflow_checks, sv_vars, mk_vars, pk_vars, join_vars, cm_vars, rc_vars>>
other_than_rc == <<overflow_checks, sv_vars, mk_vars, pk_vars, cm_vars, of_vars>>

(***************************************************************************)
(* Bounds of the model.                                                    *)
(***************************************************************************)
MaxLen == 3          \* longest column / bitmap given to set_validity
MaxMarkerRows == 2   \* most rows given to init_markers
MaxMarkerCols == 2   \* most columns given to init_markers
MaxProbeRows == 2    \* most rows of the probe batch given to probe_key
MaxChunks == 2       \* most build batches appended to the row space
MaxBuildRows == 2    \* most build rows over all batches
MaxMatched == 2      \* most probe rows that find a match, over a join
NumProbers == 2      \* probe contributors of a join
MaxMarkers == 3      \* most markers given to create_marker_chunk
MaxFilterRows == 2   \* most rows of a merged batch given to get_other_filters
MaxDeferred == 2     \* most probe rows deferred before rest_chunk

(***************************************************************************)
(* Values                                                                  *)
(***************************************************************************)
Vals == {"a", "b"}          \* the non-null scalar values of a column
ScalarNull == "NULL"        \* Scalar::Null

Min(a, b) == IF a <= b THEN a ELSE b

\* usize is 64 bits wide in the program; the model keeps a 16-bit usize, wide
\* enough for every length of the model, so that x - y wraps the same way.
UsizeModulus == 2 ^ 16

Bitmaps(n) == [1..n -> BOOLEAN]
BitmapsUpTo(n) == UNION {Bitmaps(k) : k \in 0..n}
ValuesUpTo(n) == UNION {[1..k -> Vals] : k \in 0..n}

AllTrue(n) == [i \in 1..n |-> TRUE]
AllFalse(n) == [i \in 1..n |-> FALSE]

\* Column::Null { len }
ColumnNull(len) == [kind |-> "Null", len |-> len]
\* any non-nullable column (Column::Boolean, Column::Number, ...)
ColumnPlain(values) == [kind |-> "Plain", values |-> values]
\* Column::Nullable(Box<NullableColumn { column, validity }>)
ColumnNullable(column, validity) ==
    [kind |-> "Nullable", column |-> column, validity |-> validity]

\* Column::len; NullableColumn::len is the length of its validity
ColumnLen(col) ==
    CASE col.kind = "Null" -> col.len
      [] col.kind = "Nullable" -> Len(col.validity)
      [] OTHER -> Len(col.values)

ValueScalar(s) == [tag |-> "Scalar", scalar |-> s]
ValueColumn(c) == [tag |-> "Column", column |-> c]

\* DataType::wrap_nullable: Null and Nullable(_) stay, T becomes Nullable(T)
wrap_nullable(data_type) ==
    IF data_type \in {"Null", "Nullable(T)"} THEN data_type ELSE "Nullable(T)"

ChunkEntry(id, value, data_type) ==
    [id |-> id, value |-> value, data_type |-> data_type]

(***************************************************************************)
(* Outcomes of a call: a returned value, a panic (a Rust panic unwinding   *)
(* out of the call) or an abort (the allocator giving up).                 *)
(***************************************************************************)
Returned(entry) == [status |-> "ok", entry |-> entry]
Panic == [status |-> "panic"]
Abort == [status |-> "abort"]
NotRun == [status |-> "none"]

\* a - b on usize: panics with overflow checks on, wraps with them off
usize_sub(a, b) ==
    IF a >= b THEN [ok |-> TRUE, v |-> a - b]
    ELSE IF overflow_checks THEN [ok |-> FALSE, v |-> 0]
    ELSE [ok |-> TRUE, v |-> a - b + UsizeModulus]

\* Bitmap::get_bit(i), i counted from 0, for i within the bitmap
get_bit(bitmap, i) == bitmap[i + 1]

\* MutableBitmap::extend_constant(additional, value) on a bitmap of `bits`:
\* the new length is computed on usize. A length of the order of the address
\* space cannot be allocated; a sum that wraps leaves the wrapped length.
extend_constant(bits, additional, value) ==
    LET total == Len(bits) + additional
    IN  IF total >= UsizeModulus
        THEN [ok |-> TRUE, bits |-> SubSeq(bits, 1, total - UsizeModulus)]
        ELSE IF total >= UsizeModulus \div 2
        THEN [ok |-> FALSE, bits |-> <<>>]
        ELSE [ok |-> TRUE, bits |-> bits \o [i \in 1..additional |-> value]]

\* the zip of two bitmaps, b1 & b2 pairwise: as long as the shorter one
zip_and(b1, b2) == [i \in 1..Min(Len(b1), Len(b2)) |-> b1[i] /\ b2[i]]

(***************************************************************************)
(* JoinHashTable::set_validity(column: &ChunkEntry, validity: &Bitmap)     *)
(***************************************************************************)
\* set_validity with the padding bits set instead of unset
set_validity_nullable_pad_set(column, col, validity) ==
    IF ColumnLen(col) = 0
    THEN Returned(ChunkEntry(column.id,
                             ValueColumn(ColumnNull(Len(validity))),
                             column.data_type))
    ELSE LET diff_len == usize_sub(Len(validity), Len(col.validity))
             zipped == zip_and(validity, col.validity)
             new_validity == extend_constant(zipped, diff_len.v, TRUE)
         IN  IF ~diff_len.ok THEN Panic
             ELSE IF ~new_validity.ok THEN Abort
             ELSE Returned(ChunkEntry(column.id,
                      ValueColumn(ColumnNullable(col.column, new_validity.bits)),
                      column.data_type))

set_validity_nullable(column, col, validity) ==
    IF ColumnLen(col) = 0
    THEN Returned(ChunkEntry(column.id,
                             ValueColumn(ColumnNull(Len(validity))),
                             column.data_type))
    ELSE LET diff_len == usize_sub(Len(validity), Len(col.validity))
             zipped == zip_and(validity, col.validity)
             new_validity == extend_constant(zipped, diff_len.v, FALSE)
         IN  IF ~diff_len.ok THEN Panic
             ELSE IF ~new_validity.ok THEN Abort
             ELSE Returned(ChunkEntry(column.id,
                      ValueColumn(ColumnNullable(col.column, new_validity.bits)),
                      column.data_type))

set_validity(column, validity) ==
    IF column.value.tag = "Scalar"
    THEN IF Len(validity) = 0
         THEN Panic   \* validity.get_bit(0) on an empty bitmap
         ELSE IF get_bit(validity, 0)
         THEN Returned(ChunkEntry(column.id, ValueScalar(column.value.scalar),
                                  wrap_nullable(column.data_type)))
         ELSE Returned(ChunkEntry(column.id, ValueScalar(ScalarNull),
                                  wrap_nullable(column.data_type)))
    ELSE LET col == column.value.column
         IN  IF col.kind = "Null"
             THEN Returned(column)
             ELSE IF col.kind = "Nullable"
             THEN set_validity_nullable(column, col, validity)
             ELSE Returned(ChunkEntry(column.id,
                      ValueColumn(ColumnNullable(col, validity)),
                      column.data_type))

(***************************************************************************)
(* The inputs of set_validity: well-formed entries (a nullable column's    *)
(* validity is as long as its values) and bitmaps of any length.           *)
(***************************************************************************)
NullableColumns(n) ==
    UNION {{ColumnNullable(ColumnPlain(vs), bm) : vs \in [1..k -> Vals], bm \in Bitmaps(k)}
           : k \in 0..n}
PlainColumns(n) == {ColumnPlain(vs) : vs \in ValuesUpTo(n)}
NullColumns(n) == {ColumnNull(k) : k \in 0..n}

ColumnDataType(col) ==
    CASE col.kind = "Null" -> "Null"
      [] col.kind = "Nullable" -> "Nullable(T)"
      [] OTHER -> "T"

ColumnEntry(col) == ChunkEntry(0, ValueColumn(col), ColumnDataType(col))
ScalarEntry(s) ==
    ChunkEntry(0, ValueScalar(s), IF s = ScalarNull THEN "Null" ELSE "T")

NullableEntries == {ColumnEntry(c) : c \in NullableColumns(MaxLen) \cup NullColumns(MaxLen)}
Entries ==
    NullableEntries
    \cup {ColumnEntry(c) : c \in PlainColumns(MaxLen)}
    \cup {ScalarEntry(s) : s \in Vals \cup {ScalarNull}}

(***************************************************************************)
(* JoinHashTable::init_markers(cols: &[(Column, DataType)], num_rows)      *)
(***************************************************************************)
None == [some |-> FALSE]
Some(x) == [some |-> TRUE, v |-> x]

\* Bitmap::unset_bits
unset_bits(bitmap) == Cardinality({i \in DOMAIN bitmap : ~bitmap[i]})

\* common_expression::arrow::combine_validities_3: the bitmap of the side that
\* has one, and lhs | rhs when both do
combine_validities_3(lhs, rhs) ==
    IF lhs.some /\ rhs.some
    THEN Some([i \in 1..Min(Len(lhs.v), Len(rhs.v)) |-> lhs.v[i] \/ rhs.v[i]])
    ELSE IF lhs.some THEN lhs
    ELSE IF rhs.some THEN rhs
    ELSE None

\* the loop over cols from the i-th on, `valids` being its running value;
\* a fully valid nullable column and a non-nullable column break out of it
RECURSIVE init_markers_valids(_, _, _, _)
init_markers_valids(cols, i, valids, num_rows) ==
    IF i > Len(cols) THEN valids
    ELSE LET col == cols[i]
         IN  CASE col.kind = "Nullable" ->
                    IF unset_bits(col.validity) = 0
                    THEN Some(AllTrue(num_rows))
                    ELSE init_markers_valids(cols, i + 1,
                             combine_validities_3(valids, Some(col.validity)),
                             num_rows)
               [] col.kind = "Null" ->
                    init_markers_valids(cols, i + 1, valids, num_rows)
               [] OTHER -> Some(AllTrue(num_rows))

init_markers(cols, num_rows) ==
    LET markers == [idx \in 1..num_rows |-> "False"]
    IN  IF \E i \in DOMAIN cols : cols[i].kind \in {"Null", "Nullable"}
        THEN LET valids == init_markers_valids(cols, 1, None, num_rows)
             IN  IF valids.some
                 THEN [idx \in 1..num_rows |->
                          IF ~get_bit(valids.v, idx - 1) THEN "Null" ELSE markers[idx]]
                 ELSE markers
        ELSE markers

\* the columns of a batch of n rows, as init_markers reads them: all-null,
\* nullable with any validity, or non-nullable
MarkerColumns(n) ==
    {ColumnNull(n), ColumnPlain([i \in 1..n |-> "a"])}
    \cup {ColumnNullable(ColumnPlain([i \in 1..n |-> "a"]), bm) : bm \in Bitmaps(n)}

SeqsUpTo(S, n) == UNION {[1..k -> S] : k \in 0..n}

MarkersOff ==
    /\ mk_pc = "off"
    /\ mk_cols = <<>>
    /\ mk_num_rows = 0
    /\ mk_markers = <<>>

ValidityOff ==
    /\ sv_pc = "off"
    /\ sv_column = ScalarEntry(ScalarNull)
    /\ sv_validity = <<>>
    /\ sv_out = NotRun
    /\ sv_out2 = NotRun

(***************************************************************************)
(* JoinHashTable::probe_key(hash_table, key, valids, i)                    *)
(***************************************************************************)
\* RowPtr { chunk_index, row_index, marker: Option<MarkerKind> }; the marker
\* is "None", or the MarkerKind "True", "False" or "Null"
RowPtrMarked(chunk_index, row_index, marker) ==
    [chunk_index |-> chunk_index, row_index |-> row_index, marker |-> marker]
\* RowPtr::new(chunk_index, row_index), indexes counted from 0
RowPtr(chunk_index, row_index) == RowPtrMarked(chunk_index, row_index, "None")

Keys == {"k1", "k2"}         \* the encoded join keys

\* HashtableLike::entry(key): the hash table is a function from the keys it
\* holds to their Vec<RowPtr>
entry(hash_table, key) ==
    IF key \in DOMAIN hash_table THEN Some(hash_table[key]) ELSE None

\* probe_key without the validity test
probe_key_any(hash_table, key, valids, i) == entry(hash_table, key)

probe_key(hash_table, key, valids, i) ==
    IF (IF valids.some THEN get_bit(valids.v, i) ELSE TRUE)
    THEN entry(hash_table, key)
    ELSE None

\* the hash tables of the model: each key absent, or held with one or two rows
HashTables ==
    UNION {[ks -> {<<RowPtr(0, 0)>>, <<RowPtr(0, 0), RowPtr(0, 1)>>}]
           : ks \in SUBSET Keys}

ProbeKeyOff ==
    /\ pk_pc = "off"
    /\ pk_table = <<>>
    /\ pk_key = "k1"
    /\ pk_valids = None
    /\ pk_i = 0
    /\ pk_out = None

(***************************************************************************)
(* Chunks and the row space.  A build row is <<key, payload>>, the key     *)
(* being a join key or null; a build batch has the nullable key column and *)
(* the non-nullable payload column.                                        *)
(***************************************************************************)
Chunk(columns, num_rows) == [num_rows |-> num_rows, columns |-> columns]

BuildRows == {<<"k1", "a">>, <<"k2", "b">>, <<ScalarNull, "a">>}
BuildSchema == <<"Nullable(T)", "T">>
ProbeSchema == <<"Nullable(T)", "T">>

\* the batch holding `rows`; a null key leaves the default value "k1" under
\* its unset validity bit
BuildBatch(rows) ==
    Chunk(<<ChunkEntry(0,
               ValueColumn(ColumnNullable(
                   ColumnPlain([i \in DOMAIN rows |->
                       IF rows[i][1] = ScalarNull THEN "k1" ELSE rows[i][1]]),
                   [i \in DOMAIN rows |-> rows[i][1] # ScalarNull])),
               BuildSchema[1]),
            ChunkEntry(1, ValueColumn(ColumnPlain([i \in DOMAIN rows |-> rows[i][2]])),
               BuildSchema[2])>>,
          Len(rows))

StoredRows == IF Len(chunks) = 0 THEN 0
              ELSE LET RECURSIVE total(_)
                       total(k) == IF k = 0 THEN 0
                                   ELSE total(k - 1) + chunks[k].data_chunk.num_rows
                   IN  total(Len(chunks))

\* the key expression of the join: the first column of the batch
build_keys(input) == <<input.columns[1].value.column>>

\* RowSpace::push_cols(data_chunk, cols): the batch is stored at the next index
push_cols(input, build_cols) ==
    Append(chunks, [data_chunk |-> input, cols |-> build_cols])

\* JoinHashTable::add_build_block(input)
add_build_block(input) == push_cols(input, build_keys(input))

\* the rows of the row space as RowPtrs, in (chunk_index, row_index) order
RECURSIVE RowPtrsFrom(_)
RowPtrsFrom(ci) ==
    IF ci > Len(chunks) THEN <<>>
    ELSE [ri \in 1..chunks[ci].data_chunk.num_rows |-> RowPtr(ci - 1, ri - 1)]
         \o RowPtrsFrom(ci + 1)
AllRowPtrs == RowPtrsFrom(1)

\* the encoded key of a stored row: its key value, or null
KeyOf(ptr) ==
    LET col == chunks[ptr.chunk_index + 1].cols[1]
    IN  IF col.validity[ptr.row_index + 1]
        THEN col.column.values[ptr.row_index + 1]
        ELSE ScalarNull

\* the hash index of the row space: each key held, with its rows in arrival order
HashIndex ==
    [k \in {KeyOf(AllRowPtrs[i]) : i \in DOMAIN AllRowPtrs} |->
        SelectSeq(AllRowPtrs, LAMBDA ptr : KeyOf(ptr) = k)]

\* one column of RowSpace::gather(row_ptrs): the referenced rows, in order
GatherColumn(c, row_ptrs) ==
    LET src(i) == chunks[row_ptrs[i].chunk_index + 1].data_chunk.columns[c].value.column
        row(i) == row_ptrs[i].row_index + 1
    IN  IF BuildSchema[c] = "Nullable(T)"
        THEN ColumnNullable(
                 ColumnPlain([i \in DOMAIN row_ptrs |-> src(i).column.values[row(i)]]),
                 [i \in DOMAIN row_ptrs |-> src(i).validity[row(i)]])
        ELSE ColumnPlain([i \in DOMAIN row_ptrs |-> src(i).values[row(i)]])

\* RowSpace::gather(row_ptrs) -> Result<Chunk>
gather(row_ptrs, fails) ==
    IF fails THEN [status |-> "err"]
    ELSE [status |-> "ok",
          chunk |-> Chunk([c \in DOMAIN BuildSchema |->
                              ChunkEntry(c - 1, ValueColumn(GatherColumn(c, row_ptrs)),
                                         BuildSchema[c])],
                          Len(row_ptrs))]

(***************************************************************************)
(* JoinHashTable::merge_eq_chunk(build_chunk, probe_chunk)                 *)
(***************************************************************************)
\* merge_eq_chunk with the build columns first
merge_eq_chunk_build_first(build_chunk, probe_chunk) ==
    Chunk(build_chunk.columns \o probe_chunk.columns, probe_chunk.num_rows)

merge_eq_chunk(build_chunk, probe_chunk) ==
    Chunk(probe_chunk.columns \o build_chunk.columns, probe_chunk.num_rows)

(***************************************************************************)
(* JoinHashTable::row_state_for_right_join()                               *)
(***************************************************************************)
\* the count that does not skip the entries marked False
RECURSIVE row_state_count_marked_too(_, _)
row_state_count_marked_too(row_state, i) ==
    IF i > Len(build_indexes) THEN row_state
    ELSE LET row_ptr == build_indexes[i]
         IN  row_state_count_marked_too(
                 [row_state EXCEPT ![row_ptr.chunk_index + 1][row_ptr.row_index + 1] = @ + 1],
                 i + 1)

RECURSIVE row_state_count(_, _)
row_state_count(row_state, i) ==
    IF i > Len(build_indexes) THEN row_state
    ELSE LET row_ptr == build_indexes[i]
         IN  IF join_type = "Full" /\ row_ptr.marker = "False"
             THEN row_state_count(row_state, i + 1)
             ELSE row_state_count(
                      [row_state EXCEPT ![row_ptr.chunk_index + 1][row_ptr.row_index + 1] = @ + 1],
                      i + 1)

row_state_for_right_join ==
    row_state_count([ci \in 1..Len(chunks) |->
                        [ri \in 1..chunks[ci].data_chunk.num_rows |-> 0]], 1)

(***************************************************************************)
(* JoinHashTable::find_unmatched_build_indexes(row_state)                  *)
(***************************************************************************)
RECURSIVE find_unmatched_from(_, _, _)
find_unmatched_from(row_state, chunk_index, row_index) ==
    IF chunk_index >= Len(chunks) THEN <<>>
    ELSE IF row_index >= chunks[chunk_index + 1].data_chunk.num_rows
    THEN find_unmatched_from(row_state, chunk_index + 1, 0)
    ELSE (IF row_state[chunk_index + 1][row_index + 1] = 0
          THEN <<RowPtr(chunk_index, row_index)>> ELSE <<>>)
         \o find_unmatched_from(row_state, chunk_index, row_index + 1)

\* the scan that starts after the first row of the first batch
find_unmatched_after_first(row_state) == find_unmatched_from(row_state, 0, 1)

find_unmatched_build_indexes(row_state) == find_unmatched_from(row_state, 0, 0)

(***************************************************************************)
(* JoinHashTable::null_chunks_for_right_join(unmatched_build_indexes)      *)
(***************************************************************************)
null_chunks_for_right_join(unmatched_build_indexes, gather_fails) ==
    LET gathered == gather(unmatched_build_indexes, gather_fails)
    IN  IF gathered.status # "ok" THEN [status |-> "err"]
        ELSE
        LET num_rows == gathered.chunk.num_rows
            wrapped == [c \in DOMAIN gathered.chunk.columns |->
                           set_validity(gathered.chunk.columns[c], AllTrue(num_rows))]
            null_probe_chunk ==
                Chunk([f \in DOMAIN ProbeSchema |->
                          ChunkEntry(f - 1, ValueScalar(ScalarNull), ProbeSchema[f])],
                      Len(unmatched_build_indexes))
        IN  IF join_type = "Full"
            THEN IF \E c \in DOMAIN wrapped : wrapped[c].status # "ok"
                 THEN [status |-> "panic"]
                 ELSE [status |-> "ok",
                       chunk |-> merge_eq_chunk(
                           Chunk([c \in DOMAIN wrapped |-> wrapped[c].entry], num_rows),
                           null_probe_chunk)]
            ELSE [status |-> "ok",
                  chunk |-> merge_eq_chunk(gathered.chunk, null_probe_chunk)]

(***************************************************************************)
(* The engine's finalization and the compactor (transform_right_join.rs).  *)
(***************************************************************************)
\* HashJoinState::right_join_chunks(chunks): the accumulated batches, then
\* the batch of the unmatched build rows
right_join_chunks(input, gather_fails) ==
    LET row_state == row_state_for_right_join
        unmatched == find_unmatched_build_indexes(row_state)
        null_chunk == null_chunks_for_right_join(unmatched, gather_fails)
    IN  IF null_chunk.status # "ok" THEN [status |-> null_chunk.status]
        ELSE [status |-> "ok", chunks |-> Append(input, null_chunk.chunk)]

\* RightJoinCompactor::compact_final(chunks): the calls it makes to the
\* engine, and what it returns
\* compact_final calling the engine twice
compact_final_twice(input, gather_fails) ==
    [engine_calls |-> <<input, input>>,
     result |-> right_join_chunks(input, gather_fails)]

compact_final(input, gather_fails) ==
    [engine_calls |-> <<input>>,
     result |-> right_join_chunks(input, gather_fails)]

\* HashJoinState::interrupt(): the new value of the join state's flag
hash_join_state_interrupt == TRUE
\* RightJoinCompactor::interrupt()
interrupt == hash_join_state_interrupt

\* the marker of a match record: none, or a MarkerKind; row_state_for_right_join
\* tells MarkerKind::False from the others only, so True stands for Null too
MarkerOptions == {"None", "True", "False"}

\* the probe batch of n copies of a probe row with the given key
ProbeBatch(key, n) ==
    Chunk(<<ChunkEntry(0,
               ValueColumn(ColumnNullable(
                   ColumnPlain([i \in 1..n |-> IF key = ScalarNull THEN "k1" ELSE key]),
                   [i \in 1..n |-> key # ScalarNull])),
               ProbeSchema[1]),
            ChunkEntry(1, ValueColumn(ColumnPlain([i \in 1..n |-> "a"])), ProbeSchema[2])>>,
          n)

(***************************************************************************)
(* JoinHashTable::create_marker_chunk(has_null, markers)                   *)
(***************************************************************************)
MarkerKinds == {"True", "False", "Null"}

\* Column::Boolean(bitmap)
ColumnBoolean(bitmap) == ColumnPlain(bitmap)

\* create_marker_chunk that leaves a False marker alone whatever has_null is
create_marker_chunk_plain(has_null, markers) ==
    Chunk(<<ChunkEntry(0,
               ValueColumn(ColumnNullable(
                   ColumnBoolean([i \in DOMAIN markers |-> markers[i] = "True"]),
                   [i \in DOMAIN markers |-> markers[i] # "Null"])),
               "Nullable(Boolean)")>>,
          Len(markers))

create_marker_chunk(has_null, markers) ==
    LET marker(i) == IF markers[i] = "False" /\ has_null THEN "Null" ELSE markers[i]
        validity == [i \in DOMAIN markers |-> marker(i) # "Null"]
        boolean_bit_map == [i \in DOMAIN markers |-> marker(i) = "True"]
        num_rows == Len(validity)
    IN  Chunk(<<ChunkEntry(0,
                   ValueColumn(ColumnNullable(ColumnBoolean(boolean_bit_map), validity)),
                   "Nullable(Boolean)")>>,
              num_rows)

MarkerChunkOff ==
    /\ cm_pc = "off"
    /\ cm_has_null = FALSE
    /\ cm_markers = <<>>
    /\ cm_out = NotRun

(***************************************************************************)
(* JoinHashTable::get_other_filters(merged_chunk, filter)                  *)
(***************************************************************************)
\* the scalars a predicate evaluates to
ScalarBoolean(v) == [kind |-> "Boolean", v |-> v]
ScalarNullValue == [kind |-> "Null"]
ScalarString == [kind |-> "String"]
\* a column of len strings
ColumnString(len) == [kind |-> "String", len |-> len]

\* Chunk::cast_to_nonull_boolean: a boolean value with nulls taken as false,
\* or None for a value that is not boolean
cast_to_nonull_boolean(filter_vector) ==
    IF filter_vector.tag = "Scalar"
    THEN CASE filter_vector.scalar.kind = "Boolean" ->
                 Some(ValueScalar(filter_vector.scalar.v))
           [] filter_vector.scalar.kind = "Null" -> Some(ValueScalar(FALSE))
           [] OTHER -> None
    ELSE LET col == filter_vector.column
         IN  CASE col.kind = "Null" -> Some(ValueColumn(AllFalse(col.len)))
               [] col.kind = "Nullable" ->
                    Some(ValueColumn([i \in DOMAIN col.validity |->
                                         col.validity[i] /\ col.column.values[i]]))
               [] col.kind = "String" -> None
               [] OTHER -> Some(ValueColumn(col.values))

\* the result (Option<Bitmap>, all_true, all_false)
OtherFilters(bitmap, all_true, all_false) ==
    [status |-> "ok", bitmap |-> bitmap, all_true |-> all_true, all_false |-> all_false]
ErrorCodeInternal == [status |-> "err"]

\* get_other_filters, given the value the evaluator ran the filter to
get_other_filters(filter_vector) ==
    LET cast == cast_to_nonull_boolean(filter_vector)
    IN  IF ~cast.some THEN ErrorCodeInternal
        ELSE LET predict_boolean_nonull == cast.v
             IN  IF predict_boolean_nonull.tag = "Scalar"
                 THEN LET v == predict_boolean_nonull.scalar
                      IN  OtherFilters(None, v, ~v)
                 ELSE LET s1 == predict_boolean_nonull.column
                          count_zeros == unset_bits(s1)
                          all_false == Len(s1) = count_zeros
                      IN  OtherFilters(Some(s1), count_zeros = 0, all_false)

\* the values the evaluator can run a filter to over a merged batch of n rows
FilterVectors(n) ==
    {ValueScalar(ScalarBoolean(v)) : v \in BOOLEAN}
    \cup {ValueScalar(ScalarNullValue), ValueScalar(ScalarString)}
    \cup {ValueColumn(ColumnBoolean(bm)) : bm \in Bitmaps(n)}
    \cup {ValueColumn(ColumnNullable(ColumnBoolean(bm), validity)) :
             bm \in Bitmaps(n), validity \in Bitmaps(n)}
    \cup {ValueColumn(ColumnNull(n)), ValueColumn(ColumnString(n))}

OtherFiltersOff ==
    /\ of_pc = "off"
    /\ of_filter_vector = ValueScalar(ScalarNullValue)
    /\ of_out = NotRun

(***************************************************************************)
(* JoinHashTable::rest_chunk()                                             *)
(***************************************************************************)
\* Chunk::empty()
ChunkEmpty == Chunk(<<>>, 0)

\* Chunk::concat(chunks), for one chunk or more: their rows, column by column
ConcatColumn(a, b) ==
    IF a.kind = "Nullable"
    THEN ColumnNullable(ColumnPlain(a.column.values \o b.column.values),
                        a.validity \o b.validity)
    ELSE ColumnPlain(a.values \o b.values)

RECURSIVE concat(_)
concat(cs) ==
    IF Len(cs) = 1 THEN cs[1]
    ELSE LET rest == concat(Tail(cs))
         IN  Chunk([c \in DOMAIN cs[1].columns |->
                       ChunkEntry(cs[1].columns[c].id,
                                  ValueColumn(ConcatColumn(cs[1].columns[c].value.column,
                                                           rest.columns[c].value.column)),
                                  cs[1].columns[c].data_type)],
                   cs[1].num_rows + rest.num_rows)

\* RowSpace::gather(row_ptrs) as rest_chunk calls it: over a row space that
\* stores no row the placeholders of unmatched probe rows reference nothing,
\* and the batch gathered is the empty batch of the build schema
gather_rest(row_ptrs) ==
    IF StoredRows = 0 THEN gather(<<>>, FALSE) ELSE gather(row_ptrs, FALSE)

\* what a call leaves in the join state and the row space: it takes read
\* locks only
RestState == [rest_probe_chunks |-> rest_probe_chunks,
              rest_build_indexes |-> rest_build_indexes,
              validity |-> js_validity,
              chunks |-> chunks]

RestResult(result, calls, state) ==
    [result |-> result, set_validity_calls |-> calls, state |-> state]

\* rest_chunk that wraps with set_validity even over an empty row space
rest_chunk_wrap_always ==
    IF rest_probe_chunks = <<>>
    THEN RestResult([status |-> "ok", chunk |-> ChunkEmpty], <<>>, RestState)
    ELSE
    LET probe_chunk == concat(rest_probe_chunks)
        build_chunk == gather_rest(rest_build_indexes).chunk
        wrapped == [c \in DOMAIN build_chunk.columns |->
                       set_validity(build_chunk.columns[c], js_validity)]
        calls == [c \in DOMAIN build_chunk.columns |->
                     [column |-> build_chunk.columns[c], validity |-> js_validity]]
    IN  IF \E c \in DOMAIN wrapped : wrapped[c].status # "ok"
        THEN RestResult([status |-> "panic"], calls, RestState)
        ELSE RestResult(
                 [status |-> "ok",
                  chunk |-> merge_eq_chunk(
                      Chunk([c \in DOMAIN wrapped |-> wrapped[c].entry], Len(js_validity)),
                      probe_chunk)],
                 calls, RestState)

rest_chunk ==
    IF rest_probe_chunks = <<>>
    THEN RestResult([status |-> "ok", chunk |-> ChunkEmpty], <<>>, RestState)
    ELSE
    LET probe_chunk == concat(rest_probe_chunks)
        build_chunk == gather_rest(rest_build_indexes).chunk
    IN  IF join_type \in {"Left", "Single", "Full"}
        THEN LET num_rows == Len(js_validity)
             IN  IF chunks = <<>>
                 THEN RestResult(
                          [status |-> "ok",
                           chunk |-> merge_eq_chunk(
                               Chunk([c \in DOMAIN build_chunk.columns |->
                                         ChunkEntry(build_chunk.columns[c].id,
                                                    ValueScalar(ScalarNull),
                                                    build_chunk.columns[c].data_type)],
                                     num_rows),
                               probe_chunk)],
                          <<>>, RestState)
                 ELSE LET wrapped == [c \in DOMAIN build_chunk.columns |->
                                         set_validity(build_chunk.columns[c], js_validity)]
                          calls == [c \in DOMAIN build_chunk.columns |->
                                       [column |-> build_chunk.columns[c],
                                        validity |-> js_validity]]
                      IN  IF \E c \in DOMAIN wrapped : wrapped[c].status # "ok"
                          THEN RestResult([status |-> "panic"], calls, RestState)
                          ELSE RestResult(
                                   [status |-> "ok",
                                    chunk |-> merge_eq_chunk(
                                        Chunk([c \in DOMAIN wrapped |-> wrapped[c].entry],
                                              num_rows),
                                        probe_chunk)],
                                   calls, RestState)
        ELSE RestResult([status |-> "ok",
                         chunk |-> merge_eq_chunk(build_chunk, probe_chunk)],
                        <<>>, RestState)

RestChunkOff ==
    /\ rc_pc = "off"
    /\ rest_probe_chunks = <<>>
    /\ rest_build_indexes = <<>>
    /\ js_validity = <<>>
    /\ rc_out = NotRun
    /\ rc_calls = <<>>

HelpersOff == MarkerChunkOff /\ OtherFiltersOff /\ RestChunkOff

JoinOff ==
    /\ join_type = "Right"
    /\ phase = "off"
    /\ chunks = <<>>
    /\ build_indexes = <<>>
    /\ interrupted = FALSE
    /\ probers = 0
    /\ output = <<>>
    /\ fin_row_state = <<>>
    /\ fin_unmatched = <<>>
    /\ fin_tail = NotRun
    /\ engine_calls = <<>>
    /\ engine_failed = FALSE
    /\ returned = NotRun

(***************************************************************************)
(* One right or full join, Building -> Probing -> Finalizing -> Done,      *)
(* driven by the pipeline.                                                 *)
(***************************************************************************)
InitJoinWith(contributors, profiles) ==
    /\ overflow_checks \in profiles
    /\ ValidityOff /\ MarkersOff /\ ProbeKeyOff /\ HelpersOff
    /\ join_type \in {"Right", "Full"}
    /\ phase = "Building"
    /\ chunks = <<>>
    /\ build_indexes = <<>>
    /\ interrupted = FALSE
    /\ probers = contributors
    /\ output = <<>>
    /\ fin_row_state = <<>>
    /\ fin_unmatched = <<>>
    /\ fin_tail = NotRun
    /\ engine_calls = <<>>
    /\ engine_failed = FALSE
    /\ returned = NotRun

\* a build contributor hands a batch of some of `rows` to add_build_block
AddBuildBlock(rows) ==
    /\ phase = "Building"
    /\ Len(chunks) < MaxChunks
    /\ \E batch \in SeqsUpTo(rows, MaxBuildRows - StoredRows) :
          chunks' = add_build_block(BuildBatch(batch))
    /\ UNCHANGED <<join_type, phase, build_indexes, interrupted, probers,
                   output, fin_vars, other_than_join>>

\* the pipeline declares the build side complete
FinishBuild ==
    /\ phase = "Building"
    /\ phase' = "Probing"
    /\ UNCHANGED <<join_type, chunks, build_indexes, interrupted, probers,
                   output, fin_vars, other_than_join>>

\* a probe contributor probes one row: its matches are recorded in
\* build_indexes, each tagged with the marker of the residual predicate, and
\* the joined batch is produced; an interrupted join produces nothing
Probe(markers) ==
    /\ phase = "Probing"
    /\ probers > 0
    /\ Len(output) < MaxMatched
    /\ ~interrupted
    /\ \E key \in Keys \cup {ScalarNull}, marker \in markers :
            LET valids == Some(<<key # ScalarNull>>)
                found == probe_key(HashIndex, key, valids, 0)
            IN  IF found.some
                THEN /\ build_indexes' = build_indexes \o
                            [i \in DOMAIN found.v |->
                                RowPtrMarked(found.v[i].chunk_index,
                                             found.v[i].row_index, marker)]
                     /\ output' = Append(output,
                            merge_eq_chunk(gather(found.v, FALSE).chunk,
                                           ProbeBatch(key, Len(found.v))))
                ELSE UNCHANGED <<build_indexes, output>>
    /\ UNCHANGED <<join_type, phase, chunks, interrupted, probers,
                   fin_vars, other_than_join>>

\* a probe contributor finishes; the last one opens finalization
FinishProbe ==
    /\ phase = "Probing"
    /\ probers > 0
    /\ probers' = probers - 1
    /\ phase' = IF probers = 1 THEN "Finalizing" ELSE phase
    /\ UNCHANGED <<join_type, chunks, build_indexes, interrupted,
                   output, fin_vars, other_than_join>>

\* the pipeline calls compact_final with the accumulated batches
CompactFinal(failures) ==
    /\ phase = "Finalizing"
    /\ \E gather_fails \in failures :
          LET done == compact_final(output, gather_fails)
          IN  /\ returned' = done.result
              /\ engine_calls' = engine_calls \o done.engine_calls
              /\ engine_failed' = gather_fails
              /\ fin_row_state' = row_state_for_right_join
              /\ fin_unmatched' = find_unmatched_build_indexes(row_state_for_right_join)
              /\ fin_tail' = null_chunks_for_right_join(
                                 find_unmatched_build_indexes(row_state_for_right_join),
                                 gather_fails)
    /\ phase' = "Done"
    /\ UNCHANGED <<join_type, chunks, build_indexes, interrupted, probers,
                   output, other_than_join>>

\* the pipeline delivers a cancellation to the compactor, in any state
Interrupt ==
    /\ phase # "off"
    /\ interrupted' = interrupt
    /\ UNCHANGED <<join_type, phase, chunks, build_indexes, probers,
                   output, fin_vars, other_than_join>>

\* SpecJoin: the join of one probe contributor, run to its end without
\* cancellation or engine failure, over every build side of the bounds
InitJoin == InitJoinWith(1, {TRUE})

NextJoin ==
    \/ AddBuildBlock(BuildRows)
    \/ FinishBuild
    \/ Probe(MarkerOptions)
    \/ FinishProbe
    \/ CompactFinal({FALSE})

SpecJoin == InitJoin /\ [][NextJoin]_vars

\* SpecPipeline: the join as the pipeline drives it, with several probe
\* contributors, cancellation at any time and a finalization that may fail,
\* over build sides of rows with one key and rows with a null key
PipelineRows == {<<"k1", "a">>, <<ScalarNull, "a">>}

InitPipeline == InitJoinWith(NumProbers, BOOLEAN)

NextPipeline ==
    \/ AddBuildBlock(PipelineRows)
    \/ FinishBuild
    \/ Probe({"None"})
    \/ FinishProbe
    \/ CompactFinal(BOOLEAN)
    \/ Interrupt

SpecPipeline == InitPipeline /\ [][NextPipeline]_vars

(***************************************************************************)
(* Claims about right/full-join finalization (C1 to C3 are checked under   *)
(* SpecJoin, C9 and C10 under SpecPipeline).                               *)
(***************************************************************************)
\* whether the stored batches hold the row ptr points to
IsStored(ptr) ==
    /\ ptr.chunk_index + 1 \in 1..Len(chunks)
    /\ ptr.row_index + 1 \in 1..chunks[ptr.chunk_index + 1].data_chunk.num_rows

\* the entries of build_indexes that point to a row and are counted: all of
\* them, but those marked False in a full join
CountedEntries(chunk_index, row_index) ==
    {i \in DOMAIN build_indexes :
        /\ build_indexes[i].chunk_index = chunk_index
        /\ build_indexes[i].row_index = row_index
        /\ ~(join_type = "Full" /\ build_indexes[i].marker = "False")}

\* the positions of a RowPtr in a list of RowPtrs
Occurrences(row_ptrs, ptr) == {j \in DOMAIN row_ptrs : row_ptrs[j] = ptr}

\* the value an entry holds at a row (counted from 1), null included
ValueAt(e, row) ==
    IF e.value.tag = "Scalar" THEN e.value.scalar
    ELSE LET col == e.value.column
         IN  CASE col.kind = "Null" -> ScalarNull
               [] col.kind = "Nullable" ->
                    IF row \in DOMAIN col.validity /\ col.validity[row]
                    THEN col.column.values[row] ELSE ScalarNull
               [] OTHER -> col.values[row]

\* the value of column c of the stored build row ptr points to
StoredValue(ptr, c) ==
    ValueAt(chunks[ptr.chunk_index + 1].data_chunk.columns[c], ptr.row_index + 1)

\* C1: for a right or full join, after any build appends and probe match
\* records, the finalization batch built by null_chunks_for_right_join from
\* find_unmatched_build_indexes(row_state_for_right_join()) holds every
\* build row with zero matches exactly once and no build row with a
\* non-zero count; each of its probe-side columns is null in every row; the
\* build-side values of each row are those of the stored build row.
C1_TailBatch ==
    (phase = "Done" /\ fin_tail.status = "ok") =>
        LET tail == fin_tail.chunk
            np == Len(ProbeSchema)
            nb == Len(BuildSchema)
        IN  /\ \A ci \in 1..Len(chunks) :
                 \A ri \in 1..chunks[ci].data_chunk.num_rows :
                    Cardinality(Occurrences(fin_unmatched, RowPtr(ci - 1, ri - 1)))
                        = IF CountedEntries(ci - 1, ri - 1) = {} THEN 1 ELSE 0
            /\ \A j \in DOMAIN fin_unmatched : IsStored(fin_unmatched[j])
            /\ tail.num_rows = Len(fin_unmatched)
            /\ Len(tail.columns) = np + nb
            /\ \A j \in 1..tail.num_rows :
                  /\ \A f \in 1..np : ValueAt(tail.columns[f], j) = ScalarNull
                  /\ \A c \in 1..nb :
                        ValueAt(tail.columns[np + c], j) = StoredValue(fin_unmatched[j], c)

\* C1's case: a full join finalized with a matched row, left out of the
\* tail batch, and an unmatched row with a null key, in it
C1_Witness ==
    /\ phase = "Done" /\ join_type = "Full" /\ fin_tail.status = "ok"
    /\ fin_tail.chunk.num_rows >= 1
    /\ \E j \in DOMAIN fin_unmatched : StoredValue(fin_unmatched[j], 1) = ScalarNull
    /\ \E i \in DOMAIN build_indexes : build_indexes[i].marker # "False"

\* C2: a stored build row (chunk_index, row_index) has a row_state count of
\* zero if and only if RowPtr(chunk_index, row_index) is in the result of
\* find_unmatched_build_indexes; the result lists each such row once, in
\* ascending (chunk_index, row_index) order, and holds no RowPtr outside
\* the stored batches.
C2_UnmatchedIffZero ==
    phase = "Done" =>
        /\ \A ci \in 1..Len(chunks) :
              \A ri \in 1..chunks[ci].data_chunk.num_rows :
                 /\ (fin_row_state[ci][ri] = 0) <=>
                        (Occurrences(fin_unmatched, RowPtr(ci - 1, ri - 1)) # {})
                 /\ Cardinality(Occurrences(fin_unmatched, RowPtr(ci - 1, ri - 1))) <= 1
        /\ \A j \in DOMAIN fin_unmatched : IsStored(fin_unmatched[j])
        /\ \A j, k \in DOMAIN fin_unmatched :
              j < k =>
                 \/ fin_unmatched[j].chunk_index < fin_unmatched[k].chunk_index
                 \/ /\ fin_unmatched[j].chunk_index = fin_unmatched[k].chunk_index
                    /\ fin_unmatched[j].row_index < fin_unmatched[k].row_index

\* C2's case: two batches, a matched row in the first and an unmatched row
\* in the second
C2_Witness ==
    /\ phase = "Done"
    /\ Len(chunks) >= 2
    /\ \E j \in DOMAIN fin_unmatched : fin_unmatched[j].chunk_index = 1
    /\ \E ri \in 1..chunks[1].data_chunk.num_rows : fin_row_state[1][ri] > 0

\* C3: row_state_for_right_join returns one counter per stored build row
\* (one inner list per stored batch, of that batch's row count); after any
\* probe operations the counter of a build row is the number of entries of
\* build_indexes that point to it, not counting the entries marked False
\* when the join type is Full; so a counter is zero exactly for the build
\* rows no counted entry references.
C3_RowStateCounts ==
    phase = "Done" =>
        /\ Len(fin_row_state) = Len(chunks)
        /\ \A ci \in 1..Len(chunks) :
              /\ Len(fin_row_state[ci]) = chunks[ci].data_chunk.num_rows
              /\ \A ri \in 1..chunks[ci].data_chunk.num_rows :
                    fin_row_state[ci][ri] = Cardinality(CountedEntries(ci - 1, ri - 1))

\* C3's case: a full join whose build_indexes hold an entry marked False and
\* an entry marked True, with a row counted
C3_Witness ==
    /\ phase = "Done" /\ join_type = "Full"
    /\ \E i \in DOMAIN build_indexes : build_indexes[i].marker = "False"
    /\ \E i \in DOMAIN build_indexes : build_indexes[i].marker = "True"
    /\ \E ci \in 1..Len(chunks) :
          \E ri \in 1..chunks[ci].data_chunk.num_rows : fin_row_state[ci][ri] >= 1

\* C9: finalization runs once per join and only after every probe
\* contributor has finished: the compact_final call the pipeline makes then
\* invokes the engine's right_join_chunks exactly once, with the accumulated
\* batches, and returns its result or error unchanged; and after it neither
\* build nor probe changes the row space or the join state.
C9_FinalizationOnce ==
    /\ [](/\ Len(engine_calls) <= 1
          /\ phase # "Done" => (engine_calls = <<>> /\ returned = NotRun)
          /\ phase = "Done" =>
                /\ engine_calls = <<output>>
                /\ returned = right_join_chunks(output, engine_failed))
    /\ [][engine_calls' # engine_calls => (phase = "Finalizing" /\ probers = 0)]_vars
    /\ [][phase = "Done" =>
             (phase' = "Done" /\ chunks' = chunks /\ build_indexes' = build_indexes
              /\ output' = output)]_vars

\* C9's case: finalization returned the probe output followed by a tail
\* batch of unmatched rows
C9_Witness ==
    /\ phase = "Done"
    /\ returned.status = "ok"
    /\ Len(output) >= 1
    /\ Len(returned.chunks) = Len(output) + 1
    /\ returned.chunks[Len(returned.chunks)].num_rows >= 1

\* C10 (as claimed): cancellation may arrive in any state; interrupt sets
\* the shared join state's flag, and from then on no build, probe or
\* finalization operation completes normally: none appends a build batch,
\* records a match, or produces a batch.
C10_InterruptStopsOperations ==
    /\ [][interrupted => interrupted']_vars
    /\ [][interrupted =>
             (chunks' = chunks /\ build_indexes' = build_indexes
              /\ output' = output /\ returned' = returned)]_vars

(***************************************************************************)
(* SpecProbeKey: probe_key applied to row i of a probe batch.              *)
(***************************************************************************)
InitProbeKey ==
    /\ overflow_checks \in BOOLEAN
    /\ ValidityOff /\ MarkersOff /\ JoinOff /\ HelpersOff
    /\ pk_pc = "input"
    /\ pk_table \in HashTables
    /\ pk_key \in Keys
    /\ \E n \in 1..MaxProbeRows :
          /\ pk_valids \in {None} \cup {Some(bm) : bm \in Bitmaps(n)}
          /\ pk_i \in 0..(n - 1)
    /\ pk_out = None

ProbeKey ==
    /\ pk_pc = "input"
    /\ pk_out' = probe_key(pk_table, pk_key, pk_valids, pk_i)
    /\ pk_pc' = "done"
    /\ UNCHANGED <<pk_table, pk_key, pk_valids, pk_i, other_than_pk>>

NextProbeKey == ProbeKey

SpecProbeKey == InitProbeKey /\ [][NextProbeKey]_vars

\* C8: probe_key never returns a match for a probe row whose key validity
\* bit is unset: with a bitmap whose bit i is false the result is None,
\* whether or not the hash table holds the key; with no bitmap, or bit i
\* true, the result is exactly the hash table's entry for the key, None
\* when the key is absent.
C8_NullKeyNeverMatches ==
    pk_pc = "done" =>
        IF pk_valids.some /\ ~pk_valids.v[pk_i + 1]
        THEN pk_out = None
        ELSE /\ pk_key \in DOMAIN pk_table => pk_out = Some(pk_table[pk_key])
             /\ pk_key \notin DOMAIN pk_table => pk_out = None

\* C8's case: a probe row with an unset validity bit whose key the table holds
C8_Witness ==
    /\ pk_pc = "done"
    /\ pk_valids.some /\ ~pk_valids.v[pk_i + 1]
    /\ pk_key \in DOMAIN pk_table
    /\ pk_out = None

(***************************************************************************)
(* SpecMarkers: init_markers applied to the key columns of a batch.        *)
(***************************************************************************)
InitMarkerInputs ==
    /\ overflow_checks \in BOOLEAN
    /\ ValidityOff /\ ProbeKeyOff /\ JoinOff /\ HelpersOff
    /\ mk_pc = "input"
    /\ mk_num_rows \in 0..MaxMarkerRows
    /\ mk_cols \in SeqsUpTo(MarkerColumns(mk_num_rows), MaxMarkerCols)
    /\ mk_markers = <<>>

InitMarkers ==
    /\ mk_pc = "input"
    /\ mk_markers' = init_markers(mk_cols, mk_num_rows)
    /\ mk_pc' = "done"
    /\ UNCHANGED <<mk_cols, mk_num_rows, other_than_mk>>

NextMarkers == InitMarkers

SpecMarkers == InitMarkerInputs /\ [][NextMarkers]_vars

\* whether column col holds a null at row (counted from 1)
IsNullAt(col, row) ==
    CASE col.kind = "Null" -> TRUE
      [] col.kind = "Nullable" -> ~col.validity[row]
      [] OTHER -> FALSE

\* C7 (as claimed): init_markers returns one marker per row; a row's marker
\* is Null if any of the columns is null at that row and False otherwise,
\* and never True, for every combination of nullable, all-null and
\* non-nullable columns.
C7_NullIfAnyNull ==
    mk_pc = "done" =>
        /\ Len(mk_markers) = mk_num_rows
        /\ \A row \in 1..mk_num_rows :
              /\ mk_markers[row] # "True"
              /\ mk_markers[row] =
                    IF \E i \in DOMAIN mk_cols : IsNullAt(mk_cols[i], row)
                    THEN "Null" ELSE "False"

(***************************************************************************)
(* SpecMarkerChunk: create_marker_chunk applied to the markers of a batch. *)
(***************************************************************************)
InitMarkerChunk ==
    /\ overflow_checks \in BOOLEAN
    /\ ValidityOff /\ MarkersOff /\ ProbeKeyOff /\ JoinOff
    /\ OtherFiltersOff /\ RestChunkOff
    /\ cm_pc = "input"
    /\ cm_has_null \in BOOLEAN
    /\ cm_markers \in SeqsUpTo(MarkerKinds, MaxMarkers)
    /\ cm_out = NotRun

CreateMarkerChunk ==
    /\ cm_pc = "input"
    /\ cm_out' = create_marker_chunk(cm_has_null, cm_markers)
    /\ cm_pc' = "done"
    /\ UNCHANGED <<cm_has_null, cm_markers, other_than_cm>>

NextMarkerChunk == CreateMarkerChunk

SpecMarkerChunk == InitMarkerChunk /\ [][NextMarkerChunk]_vars

\* C11: create_marker_chunk emits one nullable boolean per input marker, in
\* input order: a True marker becomes the valid value true whatever
\* has_null is, a Null marker becomes null, a False marker becomes the valid
\* value false when has_null is false and null when it is true; no False
\* or Null marker becomes true.
C11_MarkerChunk ==
    cm_pc = "done" =>
        LET e == cm_out.columns[1]
            col == e.value.column
        IN  /\ cm_out.num_rows = Len(cm_markers)
            /\ Len(cm_out.columns) = 1
            /\ e.data_type = "Nullable(Boolean)"
            /\ col.kind = "Nullable"
            /\ Len(col.validity) = Len(cm_markers)
            /\ Len(col.column.values) = Len(cm_markers)
            /\ \A i \in DOMAIN cm_markers :
                  CASE cm_markers[i] = "True" ->
                         col.validity[i] /\ col.column.values[i]
                    [] cm_markers[i] = "Null" -> ~col.validity[i]
                    [] OTHER ->
                         IF cm_has_null THEN ~col.validity[i]
                         ELSE col.validity[i] /\ ~col.column.values[i]

\* C11's case: with has_null set, a batch holding a True, a False and a Null
\* marker has been converted
C11_Witness ==
    /\ cm_pc = "done"
    /\ cm_has_null
    /\ {cm_markers[i] : i \in DOMAIN cm_markers} = MarkerKinds

(***************************************************************************)
(* SpecOtherFilters: get_other_filters applied to the value of the         *)
(* residual predicate over a merged batch.                                 *)
(***************************************************************************)
InitOtherFilters ==
    /\ overflow_checks \in BOOLEAN
    /\ ValidityOff /\ MarkersOff /\ ProbeKeyOff /\ JoinOff
    /\ MarkerChunkOff /\ RestChunkOff
    /\ of_pc = "input"
    /\ \E n \in 0..MaxFilterRows : of_filter_vector \in FilterVectors(n)
    /\ of_out = NotRun

GetOtherFilters ==
    /\ of_pc = "input"
    /\ of_out' = get_other_filters(of_filter_vector)
    /\ of_pc' = "done"
    /\ UNCHANGED <<of_filter_vector, other_than_of>>

NextOtherFilters == GetOtherFilters

SpecOtherFilters == InitOtherFilters /\ [][NextOtherFilters]_vars

\* C12 (as claimed): get_other_filters returns (no bitmap, v, not v) when the
\* predicate evaluates to a scalar boolean v, and (bitmap, all_true,
\* all_false) when it evaluates to a column, all_true holding exactly when
\* every row passes and all_false exactly when every row fails; for every
\* merged batch, one with zero rows included, the two flags are never both
\* true.
C12_OtherFilters ==
    (of_pc = "done" /\ of_out.status = "ok") =>
        /\ (of_filter_vector.tag = "Scalar" /\ of_filter_vector.scalar.kind = "Boolean") =>
              of_out = OtherFilters(None, of_filter_vector.scalar.v,
                                    ~of_filter_vector.scalar.v)
        /\ of_filter_vector.tag = "Column" =>
              /\ of_out.bitmap.some
              /\ of_out.all_true <=> \A i \in DOMAIN of_out.bitmap.v : of_out.bitmap.v[i]
              /\ of_out.all_false <=> \A i \in DOMAIN of_out.bitmap.v : ~of_out.bitmap.v[i]
        /\ ~(of_out.all_true /\ of_out.all_false)

(***************************************************************************)
(* SpecRestChunk: a left, single, full or inner join with a residual       *)
(* predicate: the build side is appended, probe rows are deferred into the *)
(* join state, and rest_chunk merges what was deferred.                    *)
(***************************************************************************)
InitRestChunk ==
    /\ overflow_checks \in BOOLEAN
    /\ ValidityOff /\ MarkersOff /\ ProbeKeyOff /\ MarkerChunkOff /\ OtherFiltersOff
    /\ join_type \in {"Left", "Single", "Full", "Inner"}
    /\ phase = "Building"
    /\ chunks = <<>>
    /\ build_indexes = <<>>
    /\ interrupted = FALSE
    /\ probers = 1
    /\ output = <<>>
    /\ fin_row_state = <<>>
    /\ fin_unmatched = <<>>
    /\ fin_tail = NotRun
    /\ engine_calls = <<>>
    /\ engine_failed = FALSE
    /\ returned = NotRun
    /\ rc_pc = "ready"
    /\ rest_probe_chunks = <<>>
    /\ rest_build_indexes = <<>>
    /\ js_validity = <<>>
    /\ rc_out = NotRun
    /\ rc_calls = <<>>

\* the RowPtr recorded for a probe row without a match: a placeholder, whose
\* row the unset validity bit hides
PlaceholderRowPtr == IF StoredRows = 0 THEN RowPtr(0, 0) ELSE AllRowPtrs[1]

\* a probe contributor defers one probe row: the probe batch, the RowPtrs of
\* its matches and their validity bits go to the join state; a row without
\* a match is kept by the outer joins, with a placeholder and an unset bit
DeferProbe ==
    /\ phase = "Probing"
    /\ rc_pc = "ready"
    /\ Len(js_validity) < MaxDeferred
    /\ \E key \in Keys \cup {ScalarNull} :
          LET found == probe_key(HashIndex, key, Some(<<key # ScalarNull>>), 0)
          IN  IF found.some
              THEN /\ rest_probe_chunks' =
                          Append(rest_probe_chunks, ProbeBatch(key, Len(found.v)))
                   /\ rest_build_indexes' = rest_build_indexes \o found.v
                   /\ js_validity' = js_validity \o AllTrue(Len(found.v))
              ELSE /\ join_type \in {"Left", "Single", "Full"}
                   /\ rest_probe_chunks' = Append(rest_probe_chunks, ProbeBatch(key, 1))
                   /\ rest_build_indexes' = Append(rest_build_indexes, PlaceholderRowPtr)
                   /\ js_validity' = Append(js_validity, FALSE)
    /\ UNCHANGED <<rc_pc, rc_out, rc_calls, join_vars, other_than_rc>>

\* the probe calls rest_chunk
RestChunk ==
    /\ phase = "Probing"
    /\ rc_pc = "ready"
    /\ LET done == rest_chunk
       IN  /\ rc_out' = done.result
           /\ rc_calls' = done.set_validity_calls
           /\ rest_probe_chunks' = done.state.rest_probe_chunks
           /\ rest_build_indexes' = done.state.rest_build_indexes
           /\ js_validity' = done.state.validity
           /\ chunks' = done.state.chunks
    /\ rc_pc' = "done"
    /\ UNCHANGED <<join_type, phase, build_indexes, interrupted, probers, output,
                   fin_vars, other_than_rc>>

NextRestChunk ==
    \/ AddBuildBlock(PipelineRows)
    \/ FinishBuild
    \/ DeferProbe
    \/ RestChunk

SpecRestChunk == InitRestChunk /\ [][NextRestChunk]_vars

\* C13: rest_chunk returns an empty batch when no probe batch was deferred;
\* otherwise, for Left, Single and Full joins, over a row space without any
\* batch every build-side column of the result is a scalar null and
\* set_validity is not applied, and over a row space with batches every
\* build-side column is passed through set_validity with the join state's
\* validity bitmap exactly once; the call leaves the join state and the row
\* space unchanged.
C13_RestChunk ==
    /\ [](rc_pc = "done" =>
           LET np == Len(ProbeSchema)
               nb == Len(BuildSchema)
               gathered == gather_rest(rest_build_indexes).chunk
           IN  /\ rest_probe_chunks = <<>> =>
                     rc_out = [status |-> "ok", chunk |-> ChunkEmpty]
               /\ (rest_probe_chunks # <<>> /\ join_type \in {"Left", "Single", "Full"}) =>
                     /\ rc_out.status = "ok"
                     /\ Len(rc_out.chunk.columns) = np + nb
                     /\ chunks = <<>> =>
                           /\ rc_calls = <<>>
                           /\ \A c \in 1..nb :
                                 rc_out.chunk.columns[np + c].value = ValueScalar(ScalarNull)
                     /\ chunks # <<>> =>
                           /\ Len(rc_calls) = nb
                           /\ \A c \in 1..nb :
                                 /\ rc_calls[c] = [column |-> gathered.columns[c],
                                                   validity |-> js_validity]
                                 /\ rc_out.chunk.columns[np + c] =
                                       set_validity(gathered.columns[c], js_validity).entry)
    /\ [][(rc_pc = "ready" /\ rc_pc' = "done") =>
             (/\ rest_probe_chunks' = rest_probe_chunks
              /\ rest_build_indexes' = rest_build_indexes
              /\ js_validity' = js_validity
              /\ chunks' = chunks
              /\ build_indexes' = build_indexes)]_vars

\* C13's case: a left join over a stored build side merged a deferred row
\* with a match and a deferred row without one
C13_Witness ==
    /\ rc_pc = "done"
    /\ join_type = "Left"
    /\ chunks # <<>>
    /\ rc_out.status = "ok"
    /\ \E i \in DOMAIN js_validity : js_validity[i]
    /\ \E i \in DOMAIN js_validity : ~js_validity[i]

(***************************************************************************)
(* SpecValidity: set_validity applied to an entry, then to its own result. *)
(***************************************************************************)
InitValidity ==
    /\ overflow_checks \in BOOLEAN
    /\ MarkersOff /\ ProbeKeyOff /\ JoinOff /\ HelpersOff
    /\ sv_pc = "input"
    /\ sv_column \in Entries
    /\ sv_validity \in BitmapsUpTo(MaxLen)
    /\ sv_out = NotRun
    /\ sv_out2 = NotRun

SetValidity ==
    /\ sv_pc = "input"
    /\ sv_out' = set_validity(sv_column, sv_validity)
    /\ sv_pc' = "once"
    /\ UNCHANGED <<sv_column, sv_validity, sv_out2, other_than_sv>>

SetValidityAgain ==
    /\ sv_pc = "once"
    /\ sv_out.status = "ok"
    /\ sv_out2' = set_validity(sv_out.entry, sv_validity)
    /\ sv_pc' = "twice"
    /\ UNCHANGED <<sv_column, sv_validity, sv_out, other_than_sv>>

NextValidity == SetValidity \/ SetValidityAgain

SpecValidity == InitValidity /\ [][NextValidity]_vars

(***************************************************************************)
(* Claims about set_validity (checked under SpecValidity).                 *)
(***************************************************************************)
SvApplied == sv_pc \in {"once", "twice"}
SvInCol == sv_column.value.column
SvInIsNullable ==
    sv_column.value.tag = "Column" /\ SvInCol.kind = "Nullable"
SvN == Len(SvInCol.validity)     \* n: the column's own validity length
SvM == Len(sv_validity)          \* m: the supplied bitmap's length

\* C4 (as claimed): set_validity is length-safe. For an already-nullable
\* column and a supplied bitmap of any length, also one shorter than the
\* column's own validity, the call returns (no panic, no abort), every
\* position the supplied bitmap lacks is invalid in the result, and the
\* column is not truncated: its values are kept and its validity still
\* covers all of its rows.
C4_LengthSafe ==
    (SvApplied /\ SvInIsNullable) =>
        /\ sv_out.status = "ok"
        /\ SvN > 0 =>
            LET out == sv_out.entry.value.column
            IN  /\ out.kind = "Nullable"
                /\ out.column = SvInCol.column
                /\ Len(out.validity) >= SvN
                /\ \A i \in (SvM + 1)..SvN : ~out.validity[i]

\* C5: for a non-empty nullable column with own validity c of length n and
\* a supplied bitmap v of length m >= n, set_validity returns a nullable
\* column whose validity has length m, bit i being v[i] AND c[i] for i < n
\* and false for n <= i < m, over the unchanged values; a zero-row nullable
\* column gives an all-null column of length m.
C5_AndThenPad ==
    (SvApplied /\ SvInIsNullable /\ SvM >= SvN) =>
        /\ sv_out.status = "ok"
        /\ sv_out.entry.value.tag = "Column"
        /\ LET out == sv_out.entry.value.column
           IN  IF SvN = 0
               THEN out = ColumnNull(SvM)
               ELSE /\ out.kind = "Nullable"
                    /\ out.column = SvInCol.column
                    /\ Len(out.validity) = SvM
                    /\ \A i \in 1..SvN :
                          out.validity[i] = (sv_validity[i] /\ SvInCol.validity[i])
                    /\ \A i \in (SvN + 1)..SvM : out.validity[i] = FALSE

\* C5's case: a longer bitmap over a column with a null of its own, where a
\* bit of the bitmap is set over the column's null, and the padding exists.
C5_Witness ==
    /\ SvApplied /\ SvInIsNullable
    /\ SvN >= 2 /\ SvM > SvN
    /\ \E i \in 1..SvN : sv_validity[i] /\ ~SvInCol.validity[i]
    /\ \E i \in 1..SvN : sv_validity[i] /\ SvInCol.validity[i]
    /\ sv_validity[SvM]
    /\ sv_out.status = "ok"

\* C6 (as claimed): validity composition is idempotent for already-nullable
\* entries (nullable column, all-null column, zero-row nullable column):
\* whenever set_validity(e, v) returns, set_validity(set_validity(e, v), v)
\* returns the same entry.
C6_Idempotent ==
    (sv_pc = "twice" /\ sv_column \in NullableEntries) => sv_out2 = sv_out

\* C14 (as claimed): null-extension is sound at every position for every
\* shape of entry: for any entry e (scalar, all-null column, nullable
\* column, non-nullable column) and any bitmap v, whenever set_validity(e, v)
\* returns, its value at position i is null for every i with v[i] false,
\* the positions i > 0 of a scalar entry included.
C14_NullWhereUnset ==
    (SvApplied /\ sv_out.status = "ok") =>
        \A i \in DOMAIN sv_validity :
            ~sv_validity[i] => ValueAt(sv_out.entry, i) = ScalarNull

====
